---- MODULE Spec2Model ----
(***************************************************************************)
(* A model of serde_file (src/src/lib.rs): the raw-byte codec BytesSer<T>  *)
(* for std::fs::OpenOptions and the wrapper SerdeFile(options, file, path) *)
(* that serializes as (options bytes, canonical path) and deserializes by  *)
(* opening the file again.                                                 *)
(*                                                                         *)
(* The file system, the open-file table of the kernel and the layout of    *)
(* OpenOptions are the collaborators the code calls into; they are modelled*)
(* with the behaviour of a Unix target (std::sys::unix::fs).               *)
(***************************************************************************)
EXTENDS Integers, Sequences, FiniteSets, TLC

\* ---------------------------------------------------------------- bounds
MaxLen == 2          \* longest file content, in bytes
MaxWrappers == 2     \* SerdeFile values alive at once

\* ------------------------------------------------------------- constants
SizeOf == 16         \* mem::size_of_val of a BytesSer<OpenOptions>
DefaultMode == 438   \* 0o666, the mode of OpenOptions::new()

\* ------------------------------------------------------------ file names
Dirs == {"/d", "/e"}
CanonPaths == {"/d/a.txt", "/e/a.txt"}
\* what a caller may pass as `path`: a relative name (the test's .\a.txt),
\* the two absolute names, and a symbolic link to /d/a.txt
RelName == "a.txt"
LinkName == "/l.txt"
PathArgs == {RelName, LinkName} \cup CanonPaths

Join(dir, name) == IF dir = "/d" THEN "/d/a.txt" ELSE "/e/a.txt"

\* The file a path names under working directory dir, links followed.
Resolve(p, dir) ==
    IF p = RelName THEN Join(dir, p)
    ELSE IF p = LinkName THEN "/d/a.txt"
    ELSE p

Min(a, b) == IF a < b THEN a ELSE b

\* ------------------------------------------------ OpenOptions and its bytes
Opt(r, w, a, t, c, cn) ==
    [read |-> r, write |-> w, append |-> a, truncate |-> t, create |-> c,
     create_new |-> cn, custom_flags |-> 0, mode |-> DefaultMode]

AllOptions ==
    [read : BOOLEAN, write : BOOLEAN, append : BOOLEAN, truncate : BOOLEAN,
     create : BOOLEAN, create_new : BOOLEAN, custom_flags : {0},
     mode : {DefaultMode, 384}]

\* the option sets the file operations are explored with
Configs ==
    { Opt(TRUE, FALSE, FALSE, FALSE, FALSE, FALSE),   \* read
      Opt(FALSE, TRUE, FALSE, FALSE, FALSE, FALSE),   \* write
      Opt(TRUE, TRUE, FALSE, FALSE, TRUE, FALSE),     \* read write create (the test)
      Opt(TRUE, TRUE, FALSE, TRUE, TRUE, FALSE),      \* read write create truncate
      Opt(FALSE, TRUE, FALSE, TRUE, TRUE, FALSE),     \* write create truncate
      Opt(TRUE, TRUE, FALSE, FALSE, FALSE, TRUE),     \* read write create_new
      Opt(TRUE, TRUE, FALSE, TRUE, TRUE, TRUE),       \* ... create truncate create_new
      Opt(TRUE, FALSE, TRUE, FALSE, TRUE, FALSE),     \* read append create
      Opt(TRUE, FALSE, FALSE, TRUE, FALSE, FALSE) }   \* read truncate (invalid)

\* The two padding bytes of the 16-byte value are never written by the
\* program: whatever the memory holds.
Pads == { <<0, 0>>, <<255, 170>> }

B2U(b) == IF b THEN 1 ELSE 0

LE32(n) ==
    << n % 256, (n \div 256) % 256, (n \div 65536) % 256, (n \div 16777216) % 256 >>

FromLE32(b, off) ==
    b[off + 1] + 256 * b[off + 2] + 65536 * b[off + 3] + 16777216 * b[off + 4]

\* A BytesSer<OpenOptions> in memory: the value and its padding bytes.
BytesSer(o, pad) == [opts |-> o, pad |-> pad]

\* bytes(x): the memory of x as a byte slice of size_of_val(x) bytes.
bytes(x) ==
    LE32(x.opts.custom_flags) \o LE32(x.opts.mode)
    \o << B2U(x.opts.read), B2U(x.opts.write), B2U(x.opts.append),
          B2U(x.opts.truncate), B2U(x.opts.create), B2U(x.opts.create_new) >>
    \o x.pad

\* <BytesSer<T> as Serialize>::serialize: serialize_bytes(bytes(self)).
BytesSer_serialize(x) == bytes(x)

\* visit_bytes, had it decoded field by field in declaration order (the six
\* flags first, then custom_flags and mode) instead of copying the memory
visit_bytes_declared(b) ==
    [opts |-> [read |-> b[1] # 0, write |-> b[2] # 0, append |-> b[3] # 0,
               truncate |-> b[4] # 0, create |-> b[5] # 0,
               create_new |-> b[6] # 0,
               custom_flags |-> FromLE32(b, 6), mode |-> FromLE32(b, 10)],
     pad |-> << b[15], b[16] >>]

\* BytesVisitor::visit_bytes: read a Self::Value from the start of the slice.
visit_bytes(b) ==
    [opts |-> [read |-> b[9] # 0, write |-> b[10] # 0, append |-> b[11] # 0,
               truncate |-> b[12] # 0, create |-> b[13] # 0,
               create_new |-> b[14] # 0,
               custom_flags |-> FromLE32(b, 0), mode |-> FromLE32(b, 4)],
     pad |-> << b[15], b[16] >>]

\* <BytesSer<T> as Deserialize>::deserialize: deserialize_bytes(BytesVisitor).
BytesSer_deserialize(b) == visit_bytes(b)


\* ------------------------------------------------------------------ state
VARIABLES
    fs,        \* the files: canonical path -> [exists, data]
    cwd,       \* the working directory of the process
    ofd,       \* the open-file table: handle -> [open, path, pos, access]
    wrappers,  \* the SerdeFile values alive: slot -> (options, file, path)
    loose,     \* handles given to the caller by into_inner
    fbytes,    \* the payload the caller holds: <<>> or <<config bytes, path>>
    ret,       \* what the last call returned
    codec      \* a BytesSer<OpenOptions> on its way through the byte codec

vars == << fs, cwd, ofd, wrappers, loose, fbytes, ret, codec >>

Handles == 1..MaxWrappers
Slots == 1..MaxWrappers
Bufs == { <<107>>, <<115>> }      \* "k", "s"
Vias == {"mut", "ref1", "ref2"}   \* &mut SerdeFile, and two &SerdeFile

NoFile == [exists |-> FALSE, data |-> <<>>]
Closed ==
    [open |-> FALSE, path |-> "", pos |-> 0, readable |-> FALSE,
     writable |-> FALSE, append |-> FALSE]
NoWrapper ==
    [live |-> FALSE,
     options |-> BytesSer(Opt(FALSE, FALSE, FALSE, FALSE, FALSE, FALSE), <<0, 0>>),
     file |-> 0, path |-> ""]

\* pop, pvia: the call before this one and the reference it went through,
\* kept when both calls go through shared references to the same wrapper
Ret(op, w, via, ok, err, data, n, msg) ==
    LET shared == via \in {"ref1", "ref2"} /\ ret.via \in {"ref1", "ref2"} /\ ret.w = w
    IN  [op |-> op, w |-> w, via |-> via, ok |-> ok, err |-> err, data |-> data,
         n |-> n, msg |-> msg,
         pop |-> IF shared THEN ret.op ELSE "",
         pvia |-> IF shared THEN ret.via ELSE ""]

\* ------------------------------------------------- the file-system calls
\* OpenOptions::get_access_mode
get_access_mode(x) ==
    IF x.append
    THEN [ok |-> TRUE, readable |-> x.read, writable |-> TRUE, append |-> TRUE]
    ELSE IF x.read \/ x.write
    THEN [ok |-> TRUE, readable |-> x.read, writable |-> x.write, append |-> FALSE]
    ELSE [ok |-> FALSE, readable |-> FALSE, writable |-> FALSE, append |-> FALSE]

\* OpenOptions::get_creation_mode
get_creation_mode(x) ==
    LET invalid ==
            IF x.append THEN x.truncate /\ ~x.create_new
            ELSE IF x.write THEN FALSE
            ELSE x.truncate \/ x.create \/ x.create_new
    IN  [ok |-> ~invalid,
         creat |-> x.create \/ x.create_new,
         trunc |-> x.truncate /\ ~x.create_new,
         excl |-> x.create_new]

\* OpenOptions::open(path): the outcome of open(2) on the files `files`.
OpenOptions_open(x, p, dir, files) ==
    LET a == get_access_mode(x)
        c == get_creation_mode(x)
        t == Resolve(p, dir)
        fail(e) == [ok |-> FALSE, err |-> e, fs |-> files, path |-> t, mode |-> a]
    IN  IF ~a.ok \/ ~c.ok THEN fail("InvalidInput")
        ELSE IF c.excl /\ (p = LinkName \/ files[t].exists) THEN fail("AlreadyExists")
        ELSE IF ~c.creat /\ ~files[t].exists THEN fail("NotFound")
        ELSE [ok |-> TRUE, err |-> "",
              fs |-> IF ~files[t].exists \/ c.trunc
                     THEN [files EXCEPT ![t] = [exists |-> TRUE, data |-> <<>>]]
                     ELSE files,
              path |-> t, mode |-> a]

\* Path::canonicalize: the absolute, link-free name of an existing file.
\* fault: the call fails although the file was opened (the name is unlinked
\* by another process meanwhile, or the OS cannot produce the final name).
canonicalize(p, dir, files, fault) ==
    LET t == Resolve(p, dir)
    IN  IF fault THEN [ok |-> FALSE, err |-> "Other", path |-> ""]
        ELSE IF ~files[t].exists THEN [ok |-> FALSE, err |-> "NotFound", path |-> ""]
        ELSE [ok |-> TRUE, err |-> "", path |-> t]

\* the lowest free descriptor
NewHandle(tab) == CHOOSE h \in Handles : ~tab[h].open /\ \A g \in Handles : g < h => tab[g].open

HasFreeHandle(tab) == \E h \in Handles : ~tab[h].open

\* a File for the open-file description open(2) made
File_new(tab, h, o) ==
    [tab EXCEPT ![h] = [open |-> TRUE, path |-> o.path, pos |-> 0,
                        readable |-> o.mode.readable, writable |-> o.mode.writable,
                        append |-> o.mode.append]]

\* drop of a File: close(2)
File_drop(tab, h) == [tab EXCEPT ![h] = Closed]

IoOut(files, tab, ok, err, data, n) ==
    [fs |-> files, ofd |-> tab, ok |-> ok, err |-> err, data |-> data, n |-> n]

\* <&File as Read>::read with a buffer of n bytes
File_read(files, tab, h, n) ==
    LET f == tab[h]
        c == files[f.path].data
        got == IF f.pos >= Len(c) THEN <<>> ELSE SubSeq(c, f.pos + 1, Min(f.pos + n, Len(c)))
    IN  IF ~f.readable THEN IoOut(files, tab, FALSE, "BadFileDescriptor", <<>>, 0)
        ELSE IoOut(files, [tab EXCEPT ![h].pos = f.pos + Len(got)], TRUE, "", got, Len(got))

Zeros(k) == [i \in 1..k |-> 0]

\* <&File as Write>::write
File_write(files, tab, h, buf) ==
    LET f == tab[h]
        c == files[f.path].data
        at == IF f.append THEN Len(c) ELSE f.pos
        head == IF at <= Len(c) THEN SubSeq(c, 1, at) ELSE c \o Zeros(at - Len(c))
        rest == IF at + Len(buf) < Len(c) THEN SubSeq(c, at + Len(buf) + 1, Len(c)) ELSE <<>>
    IN  IF ~f.writable THEN IoOut(files, tab, FALSE, "BadFileDescriptor", <<>>, 0)
        ELSE IoOut([files EXCEPT ![f.path].data = head \o buf \o rest],
                   [tab EXCEPT ![h].pos = at + Len(buf)], TRUE, "", <<>>, Len(buf))

\* <&File as Write>::flush
File_flush(files, tab, h) == IoOut(files, tab, TRUE, "", <<>>, 0)

\* <&File as Seek>::seek(SeekFrom::Start(k))
File_seek(files, tab, h, k) ==
    IoOut(files, [tab EXCEPT ![h].pos = k], TRUE, "", <<>>, k)

\* Read::read_to_end: read until a read returns 0 bytes
RECURSIVE File_read_to_end(_, _, _, _)
File_read_to_end(files, tab, h, acc) ==
    LET r == File_read(files, tab, h, MaxLen)
    IN  IF ~r.ok THEN r
        ELSE IF r.n = 0 THEN IoOut(files, r.ofd, TRUE, "", acc, Len(acc))
        ELSE File_read_to_end(files, r.ofd, h, acc \o r.data)


\* ------------------------------------------------------------- SerdeFile
OpenOut(ok, err, files, tab, value, msg) ==
    [ok |-> ok, err |-> err, fs |-> files, ofd |-> tab, value |-> value, msg |-> msg]

\* SerdeFile::open, had it opened with File::create(path) (write, create,
\* truncate) instead of x.open(path)
SerdeFile_open_create(x, p, pad, fault, dir, files, tab) ==
    LET o == OpenOptions_open(Opt(FALSE, TRUE, FALSE, TRUE, TRUE, FALSE), p, dir, files)
        h == NewHandle(tab)
        file == File_new(tab, h, o)
        c == canonicalize(p, dir, o.fs, fault)
    IN  IF ~o.ok THEN OpenOut(FALSE, o.err, files, tab, NoWrapper, <<>>)
        ELSE IF ~c.ok THEN OpenOut(FALSE, c.err, o.fs, File_drop(file, h), NoWrapper, <<>>)
        ELSE OpenOut(TRUE, "", o.fs, file,
                     [live |-> TRUE, options |-> BytesSer(x, pad), file |-> h,
                      path |-> c.path], <<>>)

\* SerdeFile::open, had it kept the file open when canonicalize fails
SerdeFile_open_leak(x, p, pad, fault, dir, files, tab) ==
    LET o == OpenOptions_open(x, p, dir, files)
        h == NewHandle(tab)
        file == File_new(tab, h, o)
        c == canonicalize(p, dir, o.fs, fault)
    IN  IF ~o.ok THEN OpenOut(FALSE, o.err, files, tab, NoWrapper, <<>>)
        ELSE IF ~c.ok THEN OpenOut(FALSE, c.err, o.fs, file, NoWrapper, <<>>)
        ELSE OpenOut(TRUE, "", o.fs, file,
                     [live |-> TRUE, options |-> BytesSer(x, pad), file |-> h,
                      path |-> c.path], <<>>)

\* SerdeFile::open, had it stored path.to_path_buf() instead of the
\* canonicalized path
SerdeFile_open_raw(x, p, pad, fault, dir, files, tab) ==
    LET o == OpenOptions_open(x, p, dir, files)
        h == NewHandle(tab)
        file == File_new(tab, h, o)
    IN  IF ~o.ok THEN OpenOut(FALSE, o.err, files, tab, NoWrapper, <<>>)
        ELSE OpenOut(TRUE, "", o.fs, file,
                     [live |-> TRUE, options |-> BytesSer(x, pad), file |-> h,
                      path |-> p], <<>>)

\* SerdeFile::open (fn a): x.open(path), then the wrapper with x.clone(), the
\* file and path.canonicalize()?; on the early return the file is dropped.
SerdeFile_open(x, p, pad, fault, dir, files, tab) ==
    LET o == OpenOptions_open(x, p, dir, files)
        h == NewHandle(tab)
        file == File_new(tab, h, o)
        c == canonicalize(p, dir, o.fs, fault)
    IN  IF ~o.ok THEN OpenOut(FALSE, o.err, files, tab, NoWrapper, <<>>)
        ELSE IF ~c.ok THEN OpenOut(FALSE, c.err, o.fs, File_drop(file, h), NoWrapper, <<>>)
        ELSE OpenOut(TRUE, "", o.fs, file,
                     [live |-> TRUE, options |-> BytesSer(x, pad), file |-> h,
                      path |-> c.path], <<>>)

\* SerdeFile::path
SerdeFile_path(self) == self.path

\* SerdeFile::options
SerdeFile_options(self) == self.options.opts

\* serialize, had it put the handle's position into the payload as well
SerdeFile_serialize_pos(self) ==
    << BytesSer_serialize(self.options), self.path, ofd[self.file].pos >>

\* <SerdeFile as Serialize>::serialize: the tuple (&self.0, &self.2)
SerdeFile_serialize(self) == << BytesSer_serialize(self.options), self.path >>

\* deserialize, had it cleared truncate before opening again
SerdeFile_deserialize_keep(payload, pad, fault, dir, files, tab) ==
    LET options == BytesSer_deserialize(payload[1])
        path_buf == payload[2]
        r == SerdeFile_open([options.opts EXCEPT !.truncate = FALSE], path_buf, pad,
                            fault, dir, files, tab)
    IN  IF r.ok THEN r
        ELSE [r EXCEPT !.msg = << "error with opening ", path_buf, ": ", r.err >>]

\* deserialize, had it passed the I/O error on without the path
SerdeFile_deserialize_bare(payload, pad, fault, dir, files, tab) ==
    LET options == BytesSer_deserialize(payload[1])
        path_buf == payload[2]
        r == SerdeFile_open(options.opts, path_buf, pad, fault, dir, files, tab)
    IN  IF r.ok THEN r
        ELSE [r EXCEPT !.msg = << r.err >>]

\* <SerdeFile as Deserialize>::deserialize: decode the tuple, open again,
\* map the error to "error with opening {path}: {e}"
SerdeFile_deserialize(payload, pad, fault, dir, files, tab) ==
    LET options == BytesSer_deserialize(payload[1])
        path_buf == payload[2]
        r == SerdeFile_open(options.opts, path_buf, pad, fault, dir, files, tab)
    IN  IF r.ok THEN r
        ELSE [r EXCEPT !.msg = << "error with opening ", path_buf, ": ", r.err >>]

\* impl Write / Read / Seek for SerdeFile: self.1.<op>
SerdeFile_write(files, tab, self, buf) == File_write(files, tab, self.file, buf)
SerdeFile_flush(files, tab, self) == File_flush(files, tab, self.file)
SerdeFile_read(files, tab, self, n) == File_read(files, tab, self.file, n)
SerdeFile_seek(files, tab, self, k) == File_seek(files, tab, self.file, k)

\* read through &SerdeFile, had it opened the path again for the call (a
\* cursor of its own, at the start) instead of using the wrapper's handle
SerdeFile_ref_read_reopen(files, tab, self, n) ==
    LET r == File_read(files, [tab EXCEPT ![self.file].pos = 0], self.file, n)
    IN  [r EXCEPT !.ofd = tab]

\* impl Write / Read / Seek for &SerdeFile: (&self.1).<op>
SerdeFile_ref_write(files, tab, self, buf) == File_write(files, tab, self.file, buf)
SerdeFile_ref_flush(files, tab, self) == File_flush(files, tab, self.file)
SerdeFile_ref_read(files, tab, self, n) == File_read(files, tab, self.file, n)
SerdeFile_ref_seek(files, tab, self, k) == File_seek(files, tab, self.file, k)

\* f2.read_to_end(&mut vec) of the test
SerdeFile_read_to_end(files, tab, self) == File_read_to_end(files, tab, self.file, <<>>)

\* drop, had the File been forgotten instead of closed
SerdeFile_drop_leak(tab, self) == tab

\* drop of a SerdeFile drops its File
SerdeFile_drop(tab, self) == File_drop(tab, self.file)

\* SerdeFile::into_inner: the three parts, moved out
SerdeFile_into_inner(self) == << self.options.opts, self.file, self.path >>

\* ---------------------------------------------------------------- actions
Idle == [stage |-> "idle", src |-> NoWrapper.options, value |-> NoWrapper.options,
         bytes |-> <<>>, out |-> NoWrapper.options]

Init ==
    /\ fs = [p \in CanonPaths |-> NoFile]
    /\ cwd = "/d"
    /\ ofd = [h \in Handles |-> Closed]
    /\ wrappers = [w \in Slots |-> NoWrapper]
    /\ loose = {}
    /\ fbytes = <<>>
    /\ ret = [op |-> "init", w |-> 0, via |-> "", ok |-> TRUE, err |-> "",
              data |-> <<>>, n |-> 0, msg |-> <<>>, pop |-> "", pvia |-> ""]
    /\ codec = Idle

FreeSlot == CHOOSE w \in Slots : ~wrappers[w].live /\ \A v \in Slots : v < w => wrappers[v].live

CanOpen == (\E w \in Slots : ~wrappers[w].live) /\ HasFreeHandle(ofd)

Open(x, p, pad, fault) ==
    /\ CanOpen
    /\ \E r \in { SerdeFile_open(x, p, pad, fault, cwd, fs, ofd) } :
           /\ fs' = r.fs
           /\ ofd' = r.ofd
           /\ wrappers' = IF r.ok THEN [wrappers EXCEPT ![FreeSlot] = r.value] ELSE wrappers
           /\ ret' = Ret("open", IF r.ok THEN FreeSlot ELSE 0, "", r.ok, r.err, <<>>,
                         IF r.ok THEN r.value.file ELSE 0, r.msg)
    /\ UNCHANGED << cwd, loose, fbytes, codec >>

Serialize(w) ==
    /\ wrappers[w].live
    /\ fbytes' = SerdeFile_serialize(wrappers[w])
    /\ ret' = Ret("serialize", w, "", TRUE, "", <<>>, 0, <<>>)
    /\ UNCHANGED << fs, cwd, ofd, wrappers, loose, codec >>

Deserialize(pad, fault) ==
    /\ fbytes # <<>>
    /\ CanOpen
    /\ \E r \in { SerdeFile_deserialize(fbytes, pad, fault, cwd, fs, ofd) } :
           /\ fs' = r.fs
           /\ ofd' = r.ofd
           /\ wrappers' = IF r.ok THEN [wrappers EXCEPT ![FreeSlot] = r.value] ELSE wrappers
           /\ ret' = Ret("deserialize", IF r.ok THEN FreeSlot ELSE 0, "", r.ok, r.err,
                         <<>>, IF r.ok THEN r.value.file ELSE 0, r.msg)
    /\ UNCHANGED << cwd, loose, fbytes, codec >>

Apply(op, w, via, r) ==
    /\ fs' = r.fs
    /\ ofd' = r.ofd
    /\ ret' = Ret(op, w, via, r.ok, r.err, r.data, r.n, <<>>)
    /\ UNCHANGED << cwd, wrappers, loose, fbytes, codec >>

Write(w, via, buf) ==
    /\ wrappers[w].live
    /\ \E r \in { IF via = "mut" THEN SerdeFile_write(fs, ofd, wrappers[w], buf)
                   ELSE SerdeFile_ref_write(fs, ofd, wrappers[w], buf) } :
           /\ Len(r.fs[wrappers[w].path].data) <= MaxLen
           /\ Apply("write", w, via, r)

Read(w, via, n) ==
    /\ wrappers[w].live
    /\ \E r \in { IF via = "mut" THEN SerdeFile_read(fs, ofd, wrappers[w], n)
                   ELSE SerdeFile_ref_read(fs, ofd, wrappers[w], n) } :
           Apply("read", w, via, r)

Seek(w, via, k) ==
    /\ wrappers[w].live
    /\ \E r \in { IF via = "mut" THEN SerdeFile_seek(fs, ofd, wrappers[w], k)
                   ELSE SerdeFile_ref_seek(fs, ofd, wrappers[w], k) } :
           Apply("seek", w, via, r)

Flush(w, via) ==
    /\ wrappers[w].live
    /\ \E r \in { IF via = "mut" THEN SerdeFile_flush(fs, ofd, wrappers[w])
                   ELSE SerdeFile_ref_flush(fs, ofd, wrappers[w]) } :
           Apply("flush", w, via, r)

ReadToEnd(w) ==
    /\ wrappers[w].live
    /\ \E r \in { SerdeFile_read_to_end(fs, ofd, wrappers[w]) } :
           Apply("read_to_end", w, "mut", r)

Drop(w) ==
    /\ wrappers[w].live
    /\ ofd' = SerdeFile_drop(ofd, wrappers[w])
    /\ wrappers' = [wrappers EXCEPT ![w] = NoWrapper]
    /\ ret' = Ret("drop", w, "", TRUE, "", <<>>, wrappers[w].file, <<>>)
    /\ UNCHANGED << fs, cwd, loose, fbytes, codec >>

IntoInner(w) ==
    /\ wrappers[w].live
    /\ loose' = loose \cup { SerdeFile_into_inner(wrappers[w])[2] }
    /\ wrappers' = [wrappers EXCEPT ![w] = NoWrapper]
    /\ ret' = Ret("into_inner", w, "", TRUE, "", <<>>, wrappers[w].file, <<>>)
    /\ UNCHANGED << fs, cwd, ofd, fbytes, codec >>

\* the caller drops a File it got from into_inner
DropFile(h) ==
    /\ h \in loose
    /\ ofd' = File_drop(ofd, h)
    /\ loose' = loose \ {h}
    /\ ret' = Ret("drop_file", 0, "", TRUE, "", <<>>, h, <<>>)
    /\ UNCHANGED << fs, cwd, wrappers, fbytes, codec >>

\* std::fs::remove_file of the test's cleanup, once no handle is open on it
RemoveFile(p) ==
    /\ fs[p].exists
    /\ \A h \in Handles : ~(ofd[h].open /\ ofd[h].path = p)
    /\ fs' = [fs EXCEPT ![p] = NoFile]
    /\ ret' = Ret("remove_file", 0, "", TRUE, "", <<>>, 0, <<>>)
    /\ UNCHANGED << cwd, ofd, wrappers, loose, fbytes, codec >>

\* the process changes its working directory
ChDir(d) ==
    /\ d # cwd
    /\ cwd' = d
    /\ ret' = Ret("chdir", 0, "", TRUE, "", <<>>, 0, <<>>)
    /\ UNCHANGED << fs, ofd, wrappers, loose, fbytes, codec >>

\* The test's shape: open, write, serialize, drop, deserialize, read to the
\* end, remove the file; in one directory.
MainPaths == {RelName, LinkName}
MainPad == <<255, 170>>

Next ==
    \/ \E x \in Configs, p \in MainPaths, fault \in BOOLEAN : Open(x, p, MainPad, fault)
    \/ \E w \in Slots : Serialize(w)
    \/ \E fault \in BOOLEAN : Deserialize(MainPad, fault)
    \/ \E w \in Slots, buf \in Bufs : Write(w, "mut", buf)
    \/ \E w \in Slots : ReadToEnd(w)
    \/ \E w \in Slots : Drop(w)
    \/ \E p \in CanonPaths : RemoveFile(p)

Spec == Init /\ [][Next]_vars


\* ------------------------------------------------- the byte codec alone
\* Any OpenOptions value, with any padding, goes through BytesSer's
\* serialize and then its deserialize.  src remembers the value as it was.
InitCodec ==
    /\ fs = [p \in CanonPaths |-> NoFile]
    /\ cwd = "/d"
    /\ ofd = [h \in Handles |-> Closed]
    /\ wrappers = [w \in Slots |-> NoWrapper]
    /\ loose = {}
    /\ fbytes = <<>>
    /\ ret = [op |-> "init", w |-> 0, via |-> "", ok |-> TRUE, err |-> "",
              data |-> <<>>, n |-> 0, msg |-> <<>>, pop |-> "", pvia |-> ""]
    /\ \E o \in AllOptions, pad \in Pads :
          codec = [stage |-> "value", src |-> BytesSer(o, pad), value |-> BytesSer(o, pad),
                   bytes |-> <<>>, out |-> NoWrapper.options]

CodecSerialize ==
    /\ codec.stage = "value"
    /\ codec' = [codec EXCEPT !.stage = "encoded", !.bytes = BytesSer_serialize(codec.value)]
    /\ UNCHANGED << fs, cwd, ofd, wrappers, loose, fbytes, ret >>

CodecDeserialize ==
    /\ codec.stage = "encoded"
    /\ codec' = [codec EXCEPT !.stage = "decoded", !.out = BytesSer_deserialize(codec.bytes)]
    /\ UNCHANGED << fs, cwd, ofd, wrappers, loose, fbytes, ret >>

NextCodec == CodecSerialize \/ CodecDeserialize

SpecCodec == InitCodec /\ [][NextCodec]_vars

\* --------------------------------------------- paths and working directory
\* open under any name, serialize, change directory, deserialize; the
\* wrapper's own read, write, flush and seek in between
PathConfig == Opt(TRUE, TRUE, FALSE, FALSE, TRUE, FALSE)

NextPath ==
    \/ \E p \in PathArgs : Open(PathConfig, p, MainPad, FALSE)
    \/ \E w \in Slots : Serialize(w)
    \/ Deserialize(MainPad, FALSE)
    \/ \E d \in Dirs : ChDir(d)
    \/ \E w \in Slots : Write(w, "mut", <<107>>)
    \/ \E w \in Slots : Read(w, "mut", 1)
    \/ \E w \in Slots : Seek(w, "mut", 0)
    \/ \E w \in Slots : Flush(w, "mut")
    \/ \E w \in Slots : Drop(w)

SpecPath == Init /\ [][NextPath]_vars

\* ------------------------------------------- I/O through shared references
\* one wrapper, every I/O call through &mut and through two & references,
\* and serialize in between
IoConfigs ==
    { Opt(TRUE, TRUE, FALSE, FALSE, TRUE, FALSE),     \* read write create
      Opt(TRUE, FALSE, TRUE, FALSE, TRUE, FALSE),     \* read append create
      Opt(FALSE, TRUE, FALSE, FALSE, TRUE, FALSE) }   \* write create

OpenFirst(x, p, pad) ==
    /\ \A w \in Slots : ~wrappers[w].live
    /\ Open(x, p, pad, FALSE)

NextIO ==
    \/ \E x \in IoConfigs, pad \in Pads : OpenFirst(x, RelName, pad)
    \/ \E w \in Slots, via \in Vias, buf \in Bufs : Write(w, via, buf)
    \/ \E w \in Slots, via \in Vias, n \in 1..MaxLen : Read(w, via, n)
    \/ \E w \in Slots, via \in Vias, k \in 0..MaxLen : Seek(w, via, k)
    \/ \E w \in Slots, via \in Vias : Flush(w, via)
    \/ \E w \in Slots : Serialize(w)

SpecIO == Init /\ [][NextIO]_vars

\* ------------------------------------------------------- handle lifecycle
\* open, serialize, deserialize, drop, into_inner, and the caller's drop of
\* a File it took out
NextLife ==
    \/ \E x \in Configs, p \in MainPaths, fault \in BOOLEAN : Open(x, p, MainPad, fault)
    \/ \E w \in Slots : Serialize(w)
    \/ \E fault \in BOOLEAN : Deserialize(MainPad, fault)
    \/ \E w \in Slots : Seek(w, "mut", MaxLen)
    \/ \E w \in Slots : Drop(w)
    \/ \E w \in Slots : IntoInner(w)
    \/ \E h \in Handles : DropFile(h)

SpecLife == Init /\ [][NextLife]_vars


\* ================================================================ properties
\* what the payload the caller holds says
PayloadOptions == visit_bytes(fbytes[1]).opts
PayloadPath == fbytes[2]

\* the configuration truncates an existing file when it opens it
ImpliesTruncate(o) == get_creation_mode(o).trunc

\* what read_to_end on wrapper w returns in the state after the step
ReadBack(w) == SerdeFile_read_to_end(fs', ofd', wrappers'[w])

Contains(msg, str) == \E i \in DOMAIN msg : msg[i] = str

\* C1, as stated: for every configuration that does not truncate on open and
\* every existing file with content C, deserializing a serialized wrapper
\* yields a wrapper whose read-to-end returns exactly C.
C1_Original ==
    [][ \A pad \in Pads :
          ( /\ ret'.op = "deserialize"
            /\ Deserialize(pad, FALSE)
            /\ fs[PayloadPath].exists
            /\ ~ImpliesTruncate(PayloadOptions) )
          => /\ ret'.ok
             /\ ReadBack(ret'.w).ok
             /\ ReadBack(ret'.w).data = fs[PayloadPath].data ]_vars

\* C1, amended: for every configuration that grants read access, does not
\* truncate on open and does not set create_new, and every existing file
\* with content C, deserializing a serialized wrapper succeeds unless the
\* canonicalization of the reopen fails, leaves the file as it is, and
\* read-to-end on the new wrapper returns exactly C.
C1_RoundTrip ==
    [][ \A pad \in Pads, fault \in BOOLEAN :
          ( /\ ret'.op = "deserialize"
            /\ Deserialize(pad, fault)
            /\ fs[PayloadPath].exists
            /\ ~ImpliesTruncate(PayloadOptions)
            /\ PayloadOptions.read
            /\ ~PayloadOptions.create_new )
          => /\ ret'.ok <=> ~fault
             /\ fs' = fs
             /\ ret'.ok => /\ ReadBack(ret'.w).ok
                           /\ ReadBack(ret'.w).data = fs[PayloadPath].data ]_vars

\* C1 happens: the test's scenario has run: "ks" was written, the wrapper serialized and
\* dropped, and the deserialized wrapper reads "ks" back
C1_Witness ==
    /\ ret.op = "deserialize" /\ ret.ok
    /\ \A v \in Slots \ {ret.w} : ~wrappers[v].live
    /\ SerdeFile_options(wrappers[ret.w]) = Opt(TRUE, TRUE, FALSE, FALSE, TRUE, FALSE)
    /\ fs[wrappers[ret.w].path].data = <<107, 115>>
    /\ SerdeFile_read_to_end(fs, ofd, wrappers[ret.w]).data = <<107, 115>>

\* C2, as stated: for a configuration with create and truncate,
\* deserializing after content was written truncates the file to empty and
\* read-to-end on the deserialized wrapper yields the empty byte sequence.
C2_Original ==
    [][ \A pad \in Pads :
          ( /\ ret'.op = "deserialize"
            /\ Deserialize(pad, FALSE)
            /\ fs[PayloadPath].exists
            /\ PayloadOptions.create /\ PayloadOptions.truncate )
          => /\ ret'.ok
             /\ fs'[PayloadPath].data = <<>>
             /\ ReadBack(ret'.w).ok
             /\ ReadBack(ret'.w).data = <<>> ]_vars

\* C2, amended: for a configuration with create and truncate that grants
\* read access and does not set create_new, deserializing truncates the file
\* to empty before anything is returned (also when the canonicalization then
\* fails), and read-to-end on the deserialized wrapper yields the empty byte
\* sequence.
C2_Destructive ==
    [][ \A pad \in Pads, fault \in BOOLEAN :
          ( /\ ret'.op = "deserialize"
            /\ Deserialize(pad, fault)
            /\ fs[PayloadPath].exists
            /\ PayloadOptions.create /\ PayloadOptions.truncate
            /\ PayloadOptions.read
            /\ ~PayloadOptions.create_new )
          => /\ ret'.ok <=> ~fault
             /\ fs'[PayloadPath] = [exists |-> TRUE, data |-> <<>>]
             /\ ret'.ok => /\ ReadBack(ret'.w).ok
                           /\ ReadBack(ret'.w).data = <<>> ]_vars

\* C2 happens: two bytes were written through the original wrapper, still at
\* offset 2, and the deserialized wrapper found the file empty
C2_Witness ==
    /\ ret.op = "deserialize" /\ ret.ok
    /\ SerdeFile_options(wrappers[ret.w]) = Opt(TRUE, TRUE, FALSE, TRUE, TRUE, FALSE)
    /\ fs[wrappers[ret.w].path].data = <<>>
    /\ \E v \in Slots \ {ret.w} :
          /\ wrappers[v].live
          /\ wrappers[v].path = wrappers[ret.w].path
          /\ ofd[wrappers[v].file].pos = 2

C4_Symmetry ==
    /\ codec.stage \in {"encoded", "decoded"}
       => /\ Len(codec.bytes) = SizeOf
          /\ codec.value = codec.src
    /\ codec.stage = "decoded" => codec.out.opts = codec.src.opts

\* C4 happens: a value with flags set, a mode of 0o600 and nonzero padding
\* went through encode and decode
C4_Witness ==
    /\ codec.stage = "decoded"
    /\ codec.src.opts.truncate /\ codec.src.opts.create /\ ~codec.src.opts.read
    /\ codec.src.opts.mode = 384
    /\ codec.src.pad = <<255, 170>>
    /\ codec.out.opts = codec.src.opts

\* what a step that called SerdeFile::open leaves behind: a whole wrapper
\* (a handle newly open on an existing file, and that file's canonical path)
\* or an error and nothing else
AllOrNothing ==
    /\ ret'.ok
       => /\ ~wrappers[ret'.w].live
          /\ wrappers'[ret'.w].live
          /\ wrappers'[ret'.w].file = ret'.n
          /\ ~ofd[ret'.n].open
          /\ ofd'[ret'.n].open
          /\ wrappers'[ret'.w].path \in CanonPaths
          /\ fs'[wrappers'[ret'.w].path].exists
          /\ ofd'[ret'.n].path = wrappers'[ret'.w].path
          /\ \A v \in Slots \ {ret'.w} : wrappers'[v] = wrappers[v]
          /\ \A h \in Handles \ {ret'.n} : ofd'[h] = ofd[h]
    /\ ~ret'.ok
       => /\ wrappers' = wrappers
          /\ ofd' = ofd
          /\ ret'.err \in {"InvalidInput", "AlreadyExists", "NotFound", "Other"}
          /\ ret'.err # "Other" => fs' = fs

\* the outcome of a reopen with the payload's fields: a wrapper exactly when
\* the open and the canonicalization both succeed, else the error of the
\* call that failed
BothOrError(fault) ==
    LET o == OpenOptions_open(PayloadOptions, PayloadPath, cwd, fs)
        c == canonicalize(PayloadPath, cwd, o.fs, fault)
    IN  /\ ret'.ok <=> (o.ok /\ c.ok)
        /\ ~ret'.ok => ret'.err = IF o.ok THEN c.err ELSE o.err
        /\ ret'.ok => wrappers'[ret'.w].path = c.path

\* C5: open and deserialize return a wrapper only if both the open and the
\* canonicalization succeeded; if either fails they return the error, the
\* wrappers are as before and no handle the call acquired remains open.
C5_NoPartialSuccess ==
    [][ /\ ret'.op \in {"open", "deserialize"} => AllOrNothing
        /\ ret'.op = "deserialize"
           => \A pad \in Pads, fault \in BOOLEAN :
                 Deserialize(pad, fault) => BothOrError(fault)
      ]_vars

\* C5 happens: the canonicalization failed after the open created the file: an
\* error, no wrapper, no handle left open
C5_Witness ==
    /\ ret.op \in {"open", "deserialize"} /\ ~ret.ok
    /\ ret.err = "Other"
    /\ fs["/d/a.txt"].exists
    /\ \A w \in Slots : ~wrappers[w].live
    /\ \A h \in Handles : ~ofd[h].open

\* C6: when open or deserialize returns an error, the file system is as it
\* was before the call.
C6_AtomicFailure ==
    [][ (ret'.op \in {"open", "deserialize"} /\ ~ret'.ok) => fs' = fs ]_vars

\* a live wrapper's path is one of the canonical names, and names the file
\* its handle is open on
PathInv ==
    \A w \in Slots :
        wrappers[w].live
        => /\ wrappers[w].path \in CanonPaths
           /\ ofd[wrappers[w].file].path = wrappers[w].path

\* what open, the I/O calls, serialize and deserialize do to the path
PathStep ==
    /\ (ret'.op = "open" /\ ret'.ok)
       => \A x \in Configs, p \in PathArgs, pad \in Pads, fault \in BOOLEAN :
             Open(x, p, pad, fault)
             => wrappers'[ret'.w].path = canonicalize(p, cwd, fs', FALSE).path
    /\ ret'.op \in {"read", "write", "flush", "seek", "serialize"}
       => \A w \in Slots : SerdeFile_path(wrappers'[w]) = SerdeFile_path(wrappers[w])
    /\ ret'.op = "serialize" => fbytes'[2] = SerdeFile_path(wrappers[ret'.w])
    /\ (ret'.op = "deserialize" /\ ret'.ok)
       => /\ SerdeFile_path(wrappers'[ret'.w]) = PayloadPath
          /\ ofd'[wrappers'[ret'.w].file].path = PayloadPath

\* C7: every live wrapper's path is absolute and canonical and names the
\* file its handle is open on; open stores the canonical form of the path it
\* was given; read, write, flush, seek and serialize leave it alone; the
\* payload carries it; and deserializing, under whatever working directory,
\* opens that file and stores that path.
C7_PathInvariant == []PathInv /\ [][PathStep]_vars

\* C7 happens: a wrapper deserialized under a working directory in which the relative
\* name means another file than the one it holds
C7_Witness ==
    /\ ret.op = "deserialize" /\ ret.ok
    /\ wrappers[ret.w].path = "/e/a.txt"
    /\ cwd = "/d"
    /\ Resolve(RelName, cwd) # wrappers[ret.w].path

SharedVias == {"ref1", "ref2"}

\* the step did what d, a call on the handle itself, does
SameAsOnHandle(d) ==
    /\ fs' = d.fs
    /\ ofd' = d.ofd
    /\ ret'.ok = d.ok /\ ret'.err = d.err /\ ret'.data = d.data /\ ret'.n = d.n
    /\ wrappers' = wrappers

\* C8: a read, write, flush or seek through a shared reference to a wrapper
\* gives the result, the file content and the position that the same call
\* on the wrapper's handle through &File gives, whichever reference it goes
\* through, and changes nothing of the wrapper.
C8_SharedIO ==
    [][ ret'.via \in SharedVias
        => LET w == ret'.w
               via == ret'.via
           IN  /\ \A buf \in Bufs :
                     Write(w, via, buf)
                     => SameAsOnHandle(File_write(fs, ofd, wrappers[w].file, buf))
               /\ \A n \in 1..MaxLen :
                     Read(w, via, n)
                     => SameAsOnHandle(File_read(fs, ofd, wrappers[w].file, n))
               /\ \A k \in 0..MaxLen :
                     Seek(w, via, k)
                     => SameAsOnHandle(File_seek(fs, ofd, wrappers[w].file, k))
               /\ Flush(w, via)
                  => SameAsOnHandle(File_flush(fs, ofd, wrappers[w].file))
      ]_vars

\* C8 happens: a write through one reference, then a read through the other, which
\* starts where the write left the position: at the end of the file
C8_Witness ==
    /\ ret.op = "read" /\ ret.via = "ref2" /\ ret.ok
    /\ ret.pop = "write" /\ ret.pvia = "ref1"
    /\ ret.data = <<>>
    /\ fs[wrappers[ret.w].path].data # <<>>
    /\ ofd[wrappers[ret.w].file].pos = Len(fs[wrappers[ret.w].path].data)

\* C9: serialize leaves the files, the open-file table and the wrapper as
\* they are; the payload has two elements, the size_of bytes of the stored
\* configuration and the stored path; and it is the payload every earlier
\* serialize of the wrapper gave, whatever was read, written or sought since.
C9_SerializeFrame ==
    [][ ret'.op = "serialize"
        => /\ fs' = fs /\ ofd' = ofd /\ wrappers' = wrappers
           /\ Len(fbytes') = 2
           /\ Len(fbytes'[1]) = SizeOf
           /\ fbytes'[1] = bytes(wrappers[ret'.w].options)
           /\ visit_bytes(fbytes'[1]).opts = SerdeFile_options(wrappers[ret'.w])
           /\ fbytes'[2] = SerdeFile_path(wrappers[ret'.w])
           /\ fbytes # <<>> => fbytes' = fbytes ]_vars

\* C9 happens: serialized after two bytes were written and the position moved
C9_Witness ==
    /\ ret.op = "serialize"
    /\ Len(fs[wrappers[ret.w].path].data) = 2
    /\ ofd[wrappers[ret.w].file].pos = 1
    /\ fbytes = << bytes(wrappers[ret.w].options), wrappers[ret.w].path >>

\* the handles the live wrappers hold
OwnedHandles == { wrappers[w].file : w \in { v \in Slots : wrappers[v].live } }

LifeInv ==
    /\ \A w \in Slots : wrappers[w].live => ofd[wrappers[w].file].open
    /\ \A v, w \in Slots :
          (wrappers[v].live /\ wrappers[w].live /\ v # w)
          => wrappers[v].file # wrappers[w].file
    /\ OwnedHandles \cap loose = {}
    /\ { h \in Handles : ofd[h].open } = OwnedHandles \cup loose

LifeStep ==
    /\ (ret'.op = "deserialize" /\ ret'.ok)
       => /\ ~ofd[ret'.n].open
          /\ wrappers'[ret'.w].file = ret'.n
          /\ ofd'[ret'.n].open /\ ofd'[ret'.n].pos = 0
          /\ \A h \in Handles \ {ret'.n} : ofd'[h] = ofd[h]
    /\ ret'.op = "drop"
       => /\ ofd[ret'.n].open
          /\ ofd' = [ofd EXCEPT ![ret'.n] = Closed]
          /\ ~wrappers'[ret'.w].live
    /\ ret'.op = "into_inner"
       => /\ ofd' = ofd /\ ofd[ret'.n].open
          /\ ret'.n \in loose'
          /\ ~wrappers'[ret'.w].live

\* C10: every live wrapper owns one open handle, no two wrappers and no
\* wrapper and the caller share one, and every open handle is owned; a
\* successful deserialize acquires a handle that was not open, at offset 0,
\* and leaves the others alone; drop closes exactly the wrapper's handle;
\* into_inner hands the handle over still open.
C10_HandleLifecycle == []LifeInv /\ [][LifeStep]_vars

\* C10 happens: the original wrapper is at the last offset; the deserialized one has
\* another handle, at offset 0
C10_Witness ==
    /\ ret.op = "deserialize" /\ ret.ok
    /\ ofd[wrappers[ret.w].file].pos = 0
    /\ \E v \in Slots \ {ret.w} :
          /\ wrappers[v].live
          /\ wrappers[v].path = wrappers[ret.w].path
          /\ wrappers[v].file # wrappers[ret.w].file
          /\ ofd[wrappers[v].file].pos = MaxLen

====
